---- MODULE Spec2Model ----
(***************************************************************************)
(* The analytics collection agent of go-btfs (analytics/analytics.go):     *)
(* Initialize, the collectionAgent goroutine, sendData / doSendData,       *)
(* update, reportHealthAlert / doReportHealthAlert, getGrpcConn and the    *)
(* retry wrapper around backoff.Retry.                                     *)
(***************************************************************************)
EXTENDS Integers, Sequences, FiniteSets, TLC

VARIABLES
    node,               \* the *core.IpfsNode handed to Initialize (NilNode = nil)
    analytics,          \* configuration.Experimental.Analytics in the live config
    pc,                 \* position of Initialize / the collectionAgent goroutine
    dc,                 \* the dataCollection object
    tickPending,        \* a tick is buffered in tick.C (channel of capacity 1)
    sendTries,          \* numTries of the backoff wrapping doSendData
    alertTries,         \* numTries of the backoff wrapping doReportHealthAlert
    alertRet,           \* where reportHealthAlert returns to
    conn,               \* grpc connections currently open
    inFlight,           \* sendData calls entered and not yet returned
    updateMetricsCalls, \* client.UpdateMetrics calls since that read
    collectHealthCalls, \* client.CollectHealth calls since that read
    cycFaults,          \* kinds of failure met since that read
    sendLog,            \* results of the doSendData invocations of this sendData
    alertLog,           \* results of the doReportHealthAlert invocations of this alert
    reads,              \* consent values of the agent's last two config reads
    consentRead,        \* some read of the flag (Initialize or agent) returned true
    hist                \* sampling history: raw counters read and deltas computed

vars == <<node, analytics, pc, dc, tickPending, sendTries, alertTries,
          alertRet, conn, inFlight, updateMetricsCalls, collectHealthCalls,
          cycFaults, sendLog, alertLog, reads, consentRead, hist>>

(***************************************************************************)
(* Bounds of the model.                                                    *)
(***************************************************************************)
MaxSamples == 3
\* uint64 arithmetic is carried out modulo 2^WordBits (TLC integers are 32 bit)
WordBits == 16

Modulus == 2 ^ WordBits

(***************************************************************************)
(* Program constants.                                                      *)
(***************************************************************************)
kilobyte == 1024
maxRetryTimes == 3

\* n == nil
NilNode == [isNil |-> TRUE, Identity |-> "", PrivateKey |-> FALSE]
\* n.Identity ("" = not assigned) and n.PrivateKey (FALSE = nil)
Nodes == [isNil : {FALSE}, Identity : {"", "QmN1"}, PrivateKey : BOOLEAN]

\* bs.Stat() results: cumulative bytes sent / received
RawSent == {2, 1000, 1500, 4096}
RawReceived == {2000, 2600}
StatInputs == [DataSent : RawSent, DataReceived : RawReceived]
\* the exchange statistics the running agent is fed
AgentStats == {[DataSent |-> 1000, DataReceived |-> 2000],
               [DataSent |-> 1500, DataReceived |-> 2600]}

\* new(dataCollection): every field has its zero value
NewDataCollection ==
    [NodeID |-> "", HVal |-> "", BTFSVersion |-> "", OSType |-> "",
     ArchType |-> "", startTime |-> "zero",
     Upload |-> 0, Download |-> 0, TotalUp |-> 0, TotalDown |-> 0]

\* no sample taken yet: the totals a sample is compared with are the zero
\* values of the new object
NoHist == [samples |-> 0, prevSent |-> 0, lastSent |-> 0, firstSent |-> 0,
           prevReceived |-> 0, lastReceived |-> 0,
           sumUpload |-> 0, monotone |-> TRUE]

\* uint64 subtraction wraps around
Sub64(a, b) == (a - b + Modulus) % Modulus

\* valOrZero(x uint64): the comparison is made on an unsigned value
valOrZero(x) == IF x < 0 THEN 0 ELSE x

\* the counter arithmetic of update(), lines 144-147
update(d, st) ==
    [d EXCEPT !.Upload = valOrZero(Sub64(st.DataSent, d.TotalUp)) \div kilobyte,
              !.Download = valOrZero(Sub64(st.DataReceived, d.TotalDown)) \div kilobyte,
              !.TotalUp = st.DataSent \div kilobyte,
              !.TotalDown = st.DataReceived \div kilobyte]

\* backOffTries.NextBackOff of backoff.WithMaxRetries(b, maxRetryTimes):
\* Stop once maxRetryTimes retries have been handed out
NextBackOffAttemptCap(numTries) ==
    IF maxRetryTimes <= numTries + 1
    THEN [stop |-> TRUE, numTries |-> numTries]
    ELSE [stop |-> FALSE, numTries |-> numTries + 1]

NextBackOffNeverStops(numTries) == [stop |-> FALSE, numTries |-> numTries]

NextBackOffOneRetry(numTries) ==
    IF 1 <= numTries
    THEN [stop |-> TRUE, numTries |-> numTries]
    ELSE [stop |-> FALSE, numTries |-> numTries + 1]

NextBackOff(numTries) ==
    IF maxRetryTimes <= numTries
    THEN [stop |-> TRUE, numTries |-> numTries]
    ELSE [stop |-> FALSE, numTries |-> numTries + 1]

\* one turn of the loop of backoff.Retry after the operation returned:
\* done on a nil error or when NextBackOff says Stop, else run it again
retryIgnoringSuccess(err, numTries) ==
    LET nb == NextBackOff(numTries)
    IN [done |-> nb.stop, numTries |-> nb.numTries]

retry(err, numTries) ==
    IF ~err
    THEN [done |-> TRUE, numTries |-> numTries]
    ELSE LET nb == NextBackOff(numTries)
         IN [done |-> nb.stop, numTries |-> nb.numTries]

\* collectionAgent: "if config.Experimental.Analytics { dc.sendData() }"
\* "for range tick.C": the loop receives the next tick only when its body,
\* the synchronous call of sendData included, has returned
tickReceivableAnytime(p) == p \in {"wait", "update", "payload", "sendDial",
                                   "sendCall", "alertDial", "alertCall"}

tickReceivable(p) == p = "wait"

\* "defer conn.Close()": the connection is closed however the call ended
closeConnOnSuccess(c, err) == IF err THEN c ELSE c - 1

closeConn(c, err) == c - 1

\* doSendData line 183: "return err" after the private key test; err is the
\* nil error getPayload returned
privateKeyNilReturnsError == "err"

privateKeyNilReturn == "nil"

collectionAgentUngated(consent) == "update"

collectionAgentInverted(consent) == IF consent THEN "wait" ELSE "update"

collectionAgentGate(consent) == IF consent THEN "update" ELSE "wait"

CyclePCs == {"update", "payload", "sendDial", "sendCall", "alertDial", "alertCall"}
AlertPCs == {"alertDial", "alertCall"}

Init ==
    /\ node \in {NilNode} \cup Nodes
    /\ analytics \in BOOLEAN
    /\ pc = "uninit"
    /\ dc = NewDataCollection
    /\ tickPending = FALSE
    /\ sendTries = 0
    /\ alertTries = 0
    /\ alertRet = "none"
    /\ conn = 0
    /\ inFlight = 0
    /\ updateMetricsCalls = 0
    /\ collectHealthCalls = 0
    /\ cycFaults = {}
    /\ sendLog = <<>>
    /\ alertLog = <<>>
    /\ reads = <<>>
    /\ consentRead = FALSE
    /\ hist = NoHist

\* the live configuration is edited from outside the agent
ToggleConsent ==
    /\ analytics' = ~analytics
    /\ UNCHANGED <<node, pc, dc, tickPending, sendTries, alertTries,
                   alertRet, conn, inFlight, updateMetricsCalls, collectHealthCalls,
                   cycFaults, sendLog, alertLog, reads, consentRead, hist>>

\* Initialize(n, BTFSVersion, hValue); cfgOk: n.Repo.Config() returned no error
Initialize(cfgOk) ==
    /\ pc = "uninit"
    /\ IF node.isNil \/ ~cfgOk
       THEN /\ pc' = "noop"
            /\ UNCHANGED <<dc, consentRead>>
       ELSE /\ consentRead' = (consentRead \/ analytics)
            /\ IF analytics
               THEN IF node.Identity = ""
                    THEN /\ pc' = "noop"
                         /\ UNCHANGED dc
                    ELSE /\ pc' = "start"
                         /\ dc' = [dc EXCEPT !.startTime = "now",
                                             !.NodeID = node.Identity,
                                             !.HVal = "hval",
                                             !.BTFSVersion = "1.0",
                                             !.OSType = "linux",
                                             !.ArchType = "amd64"]
               ELSE /\ pc' = "start"
                    /\ UNCHANGED dc
    /\ UNCHANGED <<node, analytics, tickPending, sendTries, alertTries,
                   alertRet, conn, inFlight, updateMetricsCalls, collectHealthCalls,
                   cycFaults, sendLog, alertLog, reads, hist>>

\* the ticker created at the top of collectionAgent delivers a heartbeat;
\* a tick that finds the channel full is dropped (no change of state)
Tick ==
    /\ pc \notin {"uninit", "noop", "crashed"}
    /\ ~tickPending
    /\ tickPending' = TRUE
    /\ UNCHANGED <<node, analytics, pc, dc, sendTries, alertTries, alertRet,
                   conn, inFlight, updateMetricsCalls, collectHealthCalls,
                   cycFaults, sendLog, alertLog, reads, consentRead, hist>>

\* "config, _ := dc.node.Repo.Config()" followed by the consent test; a failed
\* read leaves config nil and the field access panics
ReadConsent(cfgOk) ==
    /\ updateMetricsCalls' = 0
    /\ collectHealthCalls' = 0
    /\ cycFaults' = {}
    /\ sendLog' = <<>>
    /\ alertLog' = <<>>
    /\ sendTries' = 0
    /\ inFlight' = IF cfgOk /\ collectionAgentGate(analytics) = "update"
                   THEN inFlight + 1 ELSE inFlight
    /\ IF cfgOk
       THEN /\ pc' = collectionAgentGate(analytics)
            /\ reads' = IF Len(reads) < 2 THEN Append(reads, analytics)
                        ELSE <<reads[2], analytics>>
            /\ consentRead' = (consentRead \/ analytics)
       ELSE /\ pc' = "crashed"
            /\ UNCHANGED <<reads, consentRead>>
    /\ UNCHANGED <<node, analytics, dc, alertTries, alertRet, conn, hist>>

\* collectionAgent, lines 258-261
AgentStart(cfgOk) ==
    /\ pc = "start"
    /\ ReadConsent(cfgOk)
    /\ UNCHANGED tickPending

\* collectionAgent, lines 263-270
AgentTick(cfgOk) ==
    /\ tickReceivable(pc)
    /\ tickPending
    /\ tickPending' = FALSE
    /\ ReadConsent(cfgOk)

\* reportHealthAlert(failurePoint) is entered: a fresh backoff
EnterAlert(ret, fault) ==
    /\ pc' = "alertDial"
    /\ alertTries' = 0
    /\ alertLog' = <<>>
    /\ alertRet' = ret
    /\ cycFaults' = cycFaults \cup {fault}

\* doSendData returned err to backoff.Retry
SendAttemptDoneAlerting(err) ==
    /\ sendLog' = Append(sendLog, IF err THEN "err" ELSE "ok")
    /\ sendTries' = sendTries
    /\ inFlight' = IF err THEN inFlight ELSE inFlight - 1
    /\ pc' = IF err THEN "alertDial" ELSE "wait"

SendAttemptDone(err) ==
    LET r == retry(err, sendTries)
    IN /\ sendLog' = Append(sendLog, IF err THEN "err" ELSE "ok")
       /\ sendTries' = r.numTries
       /\ inFlight' = IF r.done THEN inFlight - 1 ELSE inFlight
       /\ pc' = IF r.done THEN "wait" ELSE "update"

\* doSendData line 175: dc.update()
Update ==
    /\ pc = "update"
    /\ \/ \E st \in AgentStats :
            /\ dc' = update(dc, st)
            /\ pc' = "payload"
            /\ UNCHANGED <<alertTries, alertLog, alertRet, cycFaults>>
       \/ \E failure \in {"assertion", "stat"} :
            /\ EnterAlert("payload", "stats")
            /\ UNCHANGED dc
    /\ UNCHANGED <<node, analytics, tickPending, sendTries, conn, inFlight,
                   updateMetricsCalls, collectHealthCalls, sendLog, reads,
                   consentRead, hist>>

\* doSendData lines 176-201: getPayload, the private key test, Sign,
\* MarshalPublicKey
Build ==
    /\ pc = "payload"
    /\ \E r \in {"ok", "marshalErr", "signErr", "pubKeyErr"} :
         IF r = "marshalErr"
         THEN EnterAlert("err", "build") /\ UNCHANGED <<sendLog, sendTries, inFlight>>
         ELSE IF ~node.PrivateKey
         THEN EnterAlert(privateKeyNilReturn, "nokey")
              /\ UNCHANGED <<sendLog, sendTries, inFlight>>
         ELSE IF r # "ok"
         THEN EnterAlert("err", "build") /\ UNCHANGED <<sendLog, sendTries, inFlight>>
         ELSE /\ pc' = "sendDial"
              /\ UNCHANGED <<alertTries, alertLog, alertRet, cycFaults, sendLog,
                             sendTries, inFlight>>
    /\ UNCHANGED <<node, analytics, dc, tickPending, conn,
                   updateMetricsCalls, collectHealthCalls, reads, consentRead,
                   hist>>

\* doSendData lines 203-206: getGrpcConn
SendDial ==
    /\ pc = "sendDial"
    /\ \E r \in {"ok", "configErr", "dialErr"} :
         /\ IF r = "ok"
            THEN /\ conn' = conn + 1
                 /\ pc' = "sendCall"
                 /\ UNCHANGED <<sendLog, sendTries, inFlight, cycFaults>>
            ELSE /\ SendAttemptDone(TRUE)
                 /\ cycFaults' = cycFaults \cup {"transport"}
                 /\ UNCHANGED conn
    /\ UNCHANGED <<node, analytics, dc, tickPending, alertTries, alertRet,
                   updateMetricsCalls, collectHealthCalls, alertLog, reads,
                   consentRead, hist>>

\* doSendData lines 207-217: UpdateMetrics under callTimeout, deferred Close
SendCall ==
    /\ pc = "sendCall"
    /\ updateMetricsCalls' = updateMetricsCalls + 1
    /\ \E err \in BOOLEAN :
         /\ conn' = closeConn(conn, err)
         /\ SendAttemptDone(err)
         /\ cycFaults' = IF err THEN cycFaults \cup {"transport"} ELSE cycFaults
    /\ UNCHANGED <<node, analytics, dc, tickPending, alertTries, alertRet,
                   collectHealthCalls, alertLog, reads, consentRead, hist>>

\* doReportHealthAlert returned err to backoff.Retry; when the retry is over
\* reportHealthAlert returns into update / doSendData
AlertAttemptDone(err) ==
    LET r == retry(err, alertTries)
    IN /\ alertLog' = Append(alertLog, IF err THEN "err" ELSE "ok")
       /\ alertTries' = r.numTries
       /\ IF ~r.done
          THEN /\ pc' = "alertDial"
               /\ UNCHANGED <<sendLog, sendTries, inFlight, alertRet>>
          ELSE /\ alertRet' = "none"
               /\ IF alertRet = "payload"
                  THEN /\ pc' = "payload"
                       /\ UNCHANGED <<sendLog, sendTries, inFlight>>
                  ELSE SendAttemptDone(alertRet = "err")

\* doReportHealthAlert lines 284-287: getGrpcConn
AlertDial ==
    /\ pc = "alertDial"
    /\ \E r \in {"ok", "configErr", "dialErr"} :
         /\ IF r = "ok"
            THEN /\ conn' = conn + 1
                 /\ pc' = "alertCall"
                 /\ UNCHANGED <<sendLog, sendTries, inFlight, alertLog, alertTries,
                                alertRet, cycFaults>>
            ELSE /\ AlertAttemptDone(TRUE)
                 /\ cycFaults' = cycFaults \cup {"transport"}
                 /\ UNCHANGED conn
    /\ UNCHANGED <<node, analytics, dc, tickPending, updateMetricsCalls,
                   collectHealthCalls, reads, consentRead, hist>>

\* doReportHealthAlert lines 288-302: CollectHealth under callTimeout,
\* deferred Close
AlertCall ==
    /\ pc = "alertCall"
    /\ collectHealthCalls' = collectHealthCalls + 1
    /\ \E err \in BOOLEAN :
         /\ conn' = closeConn(conn, err)
         /\ AlertAttemptDone(err)
         /\ cycFaults' = IF err THEN cycFaults \cup {"transport"} ELSE cycFaults
    /\ UNCHANGED <<node, analytics, dc, tickPending,
                   updateMetricsCalls, reads, consentRead, hist>>

Next ==
    \/ ToggleConsent
    \/ \E cfgOk \in BOOLEAN : Initialize(cfgOk)
    \/ Tick
    \/ \E cfgOk \in BOOLEAN : AgentStart(cfgOk)
    \/ \E cfgOk \in BOOLEAN : AgentTick(cfgOk)
    \/ Update
    \/ Build
    \/ SendDial
    \/ SendCall
    \/ AlertDial
    \/ AlertCall

Spec == Init /\ [][Next]_vars

\* the steps of a cycle: the goroutine keeps running, and each dial, call and
\* backoff sleep ends within its timeout (dialTimeout, callTimeout)
CycleStep == Update \/ Build \/ SendDial \/ SendCall \/ AlertDial \/ AlertCall

\* the agent of a node that has its identity
FairInit == Init /\ ~node.isNil /\ node.Identity # ""

FairSpec == FairInit /\ [][Next]_vars /\ WF_vars(CycleStep)

(***************************************************************************)
(* The sampler alone: update() applied tick after tick to the statistics   *)
(* bs.Stat() returns, with the raw counters it was given kept in hist.     *)
(***************************************************************************)
SamplerInit ==
    /\ node = [isNil |-> FALSE, Identity |-> "QmN1", PrivateKey |-> TRUE]
    /\ analytics = TRUE
    /\ pc = "update"
    /\ dc = NewDataCollection
    /\ tickPending = FALSE
    /\ sendTries = 0
    /\ alertTries = 0
    /\ alertRet = "none"
    /\ conn = 0
    /\ inFlight = 1
    /\ updateMetricsCalls = 0
    /\ collectHealthCalls = 0
    /\ cycFaults = {}
    /\ sendLog = <<>>
    /\ alertLog = <<>>
    /\ reads = <<TRUE>>
    /\ consentRead = TRUE
    /\ hist = NoHist

\* update() lines 138-147 with bs.Stat() returning st
Sample(st) ==
    /\ pc = "update"
    /\ hist.samples < MaxSamples
    /\ dc' = update(dc, st)
    /\ hist' = [samples |-> hist.samples + 1,
                prevSent |-> hist.lastSent,
                lastSent |-> st.DataSent,
                firstSent |-> IF hist.samples = 0 THEN st.DataSent
                              ELSE hist.firstSent,
                prevReceived |-> hist.lastReceived,
                lastReceived |-> st.DataReceived,
                sumUpload |-> IF hist.samples = 0 THEN 0
                              ELSE hist.sumUpload + dc'.Upload,
                monotone |-> hist.monotone /\
                             (hist.samples = 0 \/ hist.lastSent <= st.DataSent)]
    /\ UNCHANGED <<node, analytics, pc, tickPending, sendTries, alertTries,
                   alertRet, conn, inFlight, updateMetricsCalls, collectHealthCalls,
                   cycFaults, sendLog, alertLog, reads, consentRead>>

SamplerNext == \E st \in StatInputs : Sample(st)

SamplerSpec == SamplerInit /\ [][SamplerNext]_vars

(***************************************************************************)
(* Properties.                                                             *)
(***************************************************************************)
AllErr(log) == \A i \in 1..Len(log) : log[i] = "err"
OkOnlyLast(log) == \A i \in 1..Len(log) : log[i] = "ok" => i = Len(log)
\* the retry around doSendData / doReportHealthAlert has returned
SendFinished == pc \notin CyclePCs /\ sendLog # <<>>
AlertFinished == pc \notin AlertPCs /\ alertLog # <<>>
Max(a, b) == IF a < b THEN b ELSE a

\* C1: as long as every read of the consent flag (at activation and at each
\* heartbeat) has returned false, the transport has not been used: the agent
\* is at no dial site or call site, no connection is open and no
\* UpdateMetrics or CollectHealth call has been made.
NoConsentNoTransport ==
    ~consentRead =>
        /\ pc \notin CyclePCs
        /\ conn = 0
        /\ updateMetricsCalls = 0
        /\ collectHealthCalls = 0

\* the agent has started and gone through a heartbeat, reading false twice
NoConsentTwoReads ==
    /\ ~consentRead
    /\ reads = <<FALSE, FALSE>>
    /\ pc = "wait"

\* C2: a tick at which the flag reads false sends nothing; when the flag read
\* false at one tick and true at the next, and nothing failed in that next
\* tick's cycle, the cycle made exactly one UpdateMetrics call (one
\* doSendData run, no alert).
ToggleTakesEffectNextTick ==
    /\ (reads # <<>> /\ ~reads[Len(reads)]) =>
           /\ pc \notin CyclePCs
           /\ updateMetricsCalls = 0
           /\ collectHealthCalls = 0
    /\ (reads = <<FALSE, TRUE>> /\ pc = "wait" /\ cycFaults = {}) =>
           /\ updateMetricsCalls = 1
           /\ collectHealthCalls = 0
           /\ sendLog = <<"ok">>

ToggledCycleDelivered ==
    /\ reads = <<FALSE, TRUE>>
    /\ pc = "wait"
    /\ cycFaults = {}
    /\ updateMetricsCalls = 1

\* C3 (as claimed): a finished cycle whose only failure was the exchange
\* statistics read made exactly one CollectHealth call and no UpdateMetrics
\* call.
StatsFailureAlertsOnly ==
    (pc = "wait" /\ cycFaults = {"stats"}) =>
        /\ collectHealthCalls = 1
        /\ updateMetricsCalls = 0

SuccessEndsRetry ==
    /\ OkOnlyLast(sendLog)
    /\ OkOnlyLast(alertLog)
    /\ (SendFinished /\ Len(sendLog) >= 2 /\ sendLog[1] = "err"
            /\ sendLog[2] = "err") => Len(sendLog) >= 3
    /\ (AlertFinished /\ Len(alertLog) >= 2 /\ alertLog[1] = "err"
            /\ alertLog[2] = "err") => Len(alertLog) >= 3
    /\ (Len(sendLog) >= 3 /\ sendLog[3] = "ok") => Len(sendLog) = 3
    /\ (Len(alertLog) >= 3 /\ alertLog[3] = "ok") => Len(alertLog) = 3

\* UpdateMetrics failed twice and succeeded on the third doSendData run
FailedTwiceThenDelivered ==
    /\ pc = "wait"
    /\ sendLog = <<"err", "err", "ok">>
    /\ cycFaults = {"transport"}
    /\ updateMetricsCalls = 3

\* C6 (as claimed): when the raw cumulative counter read is lower than the
\* one read at the previous sample, the interval delta is 0.
DecreaseGivesZeroDelta ==
    /\ (hist.samples >= 2 /\ hist.lastSent < hist.prevSent) => dc.Upload = 0
    /\ (hist.samples >= 2 /\ hist.lastReceived < hist.prevReceived) =>
           dc.Download = 0

\* C7 (as claimed): over non-decreasing raw counters c0 <= ... <= cn the
\* interval deltas of samples 1..n sum to c_n - c_0 in kilobytes, less than
\* one kilobyte being lost per sample.
DeltasSumToTotal ==
    (hist.monotone /\ hist.samples >= 2) =>
        /\ hist.sumUpload * kilobyte <= hist.lastSent - hist.firstSent
        /\ hist.lastSent - hist.firstSent
               < (hist.sumUpload + hist.samples - 1) * kilobyte

\* C8 (as claimed): interval = floor(max(0, current raw - previous raw) / 1024)
\* and cumulative = floor(current raw / 1024), for upload and download.
DeltaFromPreviousRaw ==
    hist.samples >= 1 =>
        /\ dc.Upload = Max(0, hist.lastSent - hist.prevSent) \div kilobyte
        /\ dc.TotalUp = hist.lastSent \div kilobyte
        /\ dc.Download =
               Max(0, hist.lastReceived - hist.prevReceived) \div kilobyte
        /\ dc.TotalDown = hist.lastReceived \div kilobyte

\* C9 (as claimed): with a nil node or a node without identity no agent is
\* ever started, whatever the consent flag.
NoIdentityNoAgent ==
    (node.isNil \/ node.Identity = "") => pc \in {"uninit", "noop"}

\* C10: the agent's read of the flag at activation and at each heartbeat
\* starts a cycle if and only if the flag is set at that read, and a cycle
\* starts at no other step.
ConsentRead ==
    \/ pc = "start" /\ pc' # "start"
    \/ pc = "wait" /\ tickPending /\ ~tickPending'

CycleIffConsent ==
    [][/\ (ConsentRead /\ pc' # "crashed") => ((pc' = "update") <=> analytics)
       /\ (pc \notin CyclePCs /\ pc' \in CyclePCs) => ConsentRead]_vars

\* a cycle ran at activation and the following heartbeat was skipped
CycleThenSkippedTick ==
    /\ reads = <<TRUE, FALSE>>
    /\ pc = "wait"
    /\ updateMetricsCalls = 0


\* C11: at most one cycle is in flight: sendData is entered only when no
\* sendData is running, the agent is inside a cycle exactly while one is in
\* flight, and a cycle holds at most one connection.
SingleCycleInFlight ==
    /\ inFlight \in {0, 1}
    /\ (inFlight = 1) <=> (pc \in CyclePCs)
    /\ conn <= inFlight

\* a heartbeat arrived while a retried cycle is still sending an alert; it
\* stays buffered
TickWaitsForCycle ==
    /\ pc = "alertCall"
    /\ tickPending
    /\ Len(sendLog) >= 1
    /\ inFlight = 1

\* C12 (as claimed): a finished cycle whose only failure was in building or
\* signing the payload made a single CollectHealth call and no UpdateMetrics
\* call, and ran doSendData (sampling and building) once.
BuildFailureEndsCycle ==
    (pc = "wait" /\ cycFaults = {"build"}) =>
        /\ collectHealthCalls = 1
        /\ updateMetricsCalls = 0
        /\ Len(sendLog) = 1

\* C13: while the only failures of the cycle are transport failures of the
\* metrics path, no alert is raised: reportHealthAlert is not entered and no
\* CollectHealth call is made.
SendFailureNeverAlerts ==
    cycFaults \subseteq {"transport"} =>
        /\ collectHealthCalls = 0
        /\ pc \notin AlertPCs
        /\ alertLog = <<>>

\* the metrics call failed in every doSendData run and was dropped
SendDroppedWithoutAlert ==
    /\ pc = "wait"
    /\ cycFaults = {"transport"}
    /\ Len(sendLog) = maxRetryTimes + 1
    /\ updateMetricsCalls >= 1
    /\ collectHealthCalls = 0

\* C14 (as claimed): a failed read of the configuration never takes the
\* scheduler down.
SchedulerSurvivesConfigFailure == pc # "crashed"

\* C15 (as claimed): the transport operations of one cycle (UpdateMetrics and
\* CollectHealth calls) number at most the attempt cap of 3.
TransportOpsWithinCap ==
    updateMetricsCalls + collectHealthCalls <= maxRetryTimes

\* C16 (as claimed): the stored totals follow the latest raw counters, and a
\* delta computed by a further run of update() (a retry or a later tick)
\* reports no more than the traffic since the previous run.
NoDoubleCounting ==
    hist.samples >= 1 =>
        /\ dc.TotalUp = hist.lastSent \div kilobyte
        /\ dc.TotalDown = hist.lastReceived \div kilobyte
        /\ hist.prevSent <= hist.lastSent =>
               dc.Upload * kilobyte <= hist.lastSent - hist.prevSent
        /\ hist.prevReceived <= hist.lastReceived =>
               dc.Download * kilobyte <= hist.lastReceived - hist.prevReceived

\* C17: a connection is open only between a successful dial and the return
\* of the call made on it; whenever the agent is elsewhere (idle, sampling,
\* building, dialling, crashed) no connection is open.
ConnectionsReleased ==
    /\ conn \in {0, 1}
    /\ (conn = 1) <=> (pc \in {"sendCall", "alertCall"})

\* a cycle with an alert call and a metrics call, one of them failed, is over
ClosedAfterFailedCall ==
    /\ pc = "wait"
    /\ conn = 0
    /\ updateMetricsCalls >= 1
    /\ collectHealthCalls >= 1
    /\ "transport" \in cycFaults

\* C18: every cycle terminates: doSendData and doReportHealthAlert are each
\* run at most maxRetryTimes + 1 times by their retry, and a cycle in
\* progress always leads back to the agent waiting for the next heartbeat.
CycleTerminates ==
    /\ [](Len(sendLog) <= maxRetryTimes + 1 /\ Len(alertLog) <= maxRetryTimes + 1)
    /\ (pc \in CyclePCs) ~> (pc = "wait")

\* a cycle in which sampling, building and the transport all failed, every
\* doSendData run included, has ended
WorstCycleEnded ==
    /\ pc = "wait"
    /\ cycFaults = {"stats", "build", "transport"}
    /\ Len(sendLog) = maxRetryTimes + 1
    /\ AllErr(sendLog)

\* C19: in a cycle of a node without private key (payload construction not
\* failing), doSendData raises the alert and returns nil: it ran exactly
\* once, no UpdateMetrics call was made, and with nothing else failing
\* exactly one CollectHealth call was made.
NilKeyRunsOnce ==
    /\ (pc = "wait" /\ "nokey" \in cycFaults /\ "build" \notin cycFaults) =>
           /\ sendLog = <<"ok">>
           /\ updateMetricsCalls = 0
           /\ alertLog # <<>>
    /\ (pc = "wait" /\ cycFaults = {"nokey"}) => collectHealthCalls = 1

NilKeyCycleEnded ==
    /\ pc = "wait"
    /\ ~node.PrivateKey
    /\ cycFaults = {"nokey"}
    /\ collectHealthCalls = 1

\* C20 (as claimed): whenever a record is being sent (an UpdateMetrics or
\* CollectHealth call is in progress) the object carries the identity:
\* node id, version, OS, architecture and start time are set.
SentRecordsCarryIdentity ==
    pc \in {"sendCall", "alertCall"} =>
        /\ dc.NodeID # ""
        /\ dc.BTFSVersion # ""
        /\ dc.OSType # ""
        /\ dc.ArchType # ""
        /\ dc.startTime = "now"

====
